---------------------------- MODULE Spec2Model ----------------------------
(***************************************************************************)
(* Model of the Kahn scheduler of src/kahn.py (class Kahn): run,           *)
(* initialize_x, iter_Kahn and decode_last_state, as the Python source     *)
(* executes them.                                                          *)
(*                                                                         *)
(* The state vector x is a numpy array of nb_nodes rows (node id 0..n-1)   *)
(* and three columns: column 0 the remaining constraints, column 1 the     *)
(* label (-1 = unset), column 2 the lifecycle (-1 Blocked, 0 Ready,        *)
(* 1 Done).  A row is modelled as the tuple <<col0, col1, col2>>, so numpy *)
(* column k is tuple position k + 1.                                       *)
(*                                                                         *)
(* numpy arrays are objects: run holds a reference x, iter_Kahn mutates    *)
(* the referenced array in place, and history holds references to the      *)
(* arrays x.copy() allocates.  The model keeps a heap of arrays and lets   *)
(* x and the entries of history be addresses into it.                      *)
(***************************************************************************)
EXTENDS Integers, Sequences, FiniteSets

\* Bounds of the explored inputs.
MaxNodes == 3
MaxEdges == 3
MaxPrio == 1

VARIABLES nb_nodes, E, priority, debug, pc, heap, x, history, steps, exc, stdout, result

vars == <<nb_nodes, E, priority, debug, pc, heap, x, history, steps, exc, stdout, result>>

\* The node ids of a graph of n nodes: range(nb_nodes).
NodeIds(n) == 0 .. (n - 1)

\* The graphs explored: directed graphs (self-loops allowed, as networkx
\* allows them) on n nodes given by their edge set; E[i,j] = 1 iff <<i,j>> is in it.
Graphs(n) == {g \in SUBSET (NodeIds(n) \X NodeIds(n)) : Cardinality(g) <= MaxEdges}

\* Python's None as the value of an expression (a list value l is
\* [tag |-> "list", val |-> l]).
None == [tag |-> "None"]

\* float('inf') and a finite number, ordered by Less.
Inf == <<1, 0>>

Fin(v) == <<0, v>>

Less(a, b) == a[1] < b[1] \/ (a[1] = b[1] /\ a[2] < b[2])

\* x[:,k] of a numpy array a.
Col(a, k) == [i \in DOMAIN a |-> a[i][k + 1]]

\* np.amax / np.amin of a one-dimensional array of numbers.
amax(v) == CHOOSE m \in {v[i] : i \in DOMAIN v} : \A i \in DOMAIN v : v[i] <= m

amin(v) == CHOOSE m \in {v[i] : i \in DOMAIN v} : \A i \in DOMAIN v : m <= v[i]

\* np.argmin of a one-dimensional array of Fin/Inf values: the first index
\* of a minimal element.
argmin(v) ==
    CHOOSE i \in DOMAIN v :
        /\ \A j \in DOMAIN v : ~Less(v[j], v[i])
        /\ \A j \in DOMAIN v : (j < i) => Less(v[i], v[j])

\* sorted(ids, key=priority) of a list of node ids given in ascending id
\* order: ascending priority, and (the sort being stable) ascending id among
\* equal priorities.
RECURSIVE sorted(_, _)
sorted(S, prio) ==
    IF S = {} THEN <<>>
    ELSE LET m == CHOOSE a \in S : \A b \in S :
                      prio[a] < prio[b] \/ (prio[a] = prio[b] /\ a <= b)
         IN <<m>> \o sorted(S \ {m}, prio)

\* The list l with its elements in reverse order.
Reversed(l) == [k \in 1 .. Len(l) |-> l[Len(l) + 1 - k]]

\* A reversal that hands back the reversed list, as reversed(l) or l[::-1] do.
list_reverse_returns_list(l) == [ret |-> [tag |-> "list", val |-> Reversed(l)], list |-> Reversed(l)]

\* list.reverse(): reverses the list in place (list) and returns None (ret).
list_reverse(l) == [ret |-> None, list |-> Reversed(l)]

\* Python truthiness of None or a list.
Truthy(v) == v.tag = "list" /\ v.val # <<>>

\* get_degree(E, ind) = np.sum(E[:,ind]): the in-degree of ind.
get_degree(g, ind) == Cardinality({e \in g : e[2] = ind})

\* The loop "for i in free_nodes" of initialize_x, from label on.
RECURSIVE label_free(_, _, _)
label_free(a, free_nodes, label) ==
    IF free_nodes = <<>> THEN a
    ELSE LET i == Head(free_nodes)
         IN label_free([a EXCEPT ![i] = <<a[i][1], label, 0>>], Tail(free_nodes), label + 1)

\* initialize_x(graph): the array it returns (x) and the lines it prints (out).
initialize_x(n, g, prio) ==
    LET x0 == [i \in NodeIds(n) |-> <<get_degree(g, i), -1, -1>>]
        free_idx == {i \in NodeIds(n) : x0[i][1] = 0}
        free_nodes == sorted(free_idx, prio)
        rev == list_reverse(free_nodes)
    IN IF ~Truthy(rev.ret)
       THEN [x |-> x0, out |-> <<"No free nodes">>]
       ELSE [x |-> label_free(x0, rev.list, 1), out |-> <<>>]

\* The body of "for ind in ..." of iter_Kahn over the list l.
RECURSIVE for_neigh(_, _, _)
for_neigh(a, l, next_label) ==
    IF l = <<>> THEN a
    ELSE LET ind == Head(l)
             c == a[ind][1] - 1
         IN IF c = 0
            THEN for_neigh([a EXCEPT ![ind] = <<c, next_label, 0>>], Tail(l), next_label + 1)
            ELSE for_neigh([a EXCEPT ![ind] = <<c, a[ind][2], a[ind][3]>>], Tail(l), next_label)

\* Line 105: np.argmin(np.where(x[:,2] == 0, x[:,1], float('inf'))), the node
\* iter_Kahn selects in the array a.
select_node(a) == argmin([i \in DOMAIN a |-> IF a[i][3] = 0 THEN Fin(a[i][2]) ELSE Inf])

\* iter_Kahn without the test of lines 102-103 for a stuck algorithm.
iter_Kahn_no_stuck_test(n, g, prio, a, dbg) ==
    LET next_label == amax(Col(a, 1)) + 1
    IN IF dbg /\ ~(next_label >= 1)
       THEN [x |-> a, exc |-> "AssertionError"]
       ELSE LET node_to_free == select_node(a)
                a2 == [a EXCEPT ![node_to_free] = <<a[node_to_free][1], a[node_to_free][2], 1>>]
                neigh == sorted({j \in NodeIds(n) : <<node_to_free, j>> \in g}, prio)
                it == list_reverse(neigh).ret
            IN IF it.tag = "list"
               THEN [x |-> for_neigh(a2, it.val, next_label), exc |-> "none"]
               ELSE [x |-> a2, exc |-> "TypeError"]

\* iter_Kahn(graph, x, E) on the array a: the array as the call leaves it
\* (it is mutated in place, also when the call raises) and the exception
\* raised ("none" when the call returns).  dbg is Python's __debug__: an
\* assert statement is executed only when it is true (it is false under -O).
iter_Kahn(n, g, prio, a, dbg) ==
    LET next_label == amax(Col(a, 1)) + 1
    IN IF dbg /\ ~(next_label >= 1)
       THEN [x |-> a, exc |-> "AssertionError"]
       ELSE LET a1 == IF Cardinality({i \in NodeIds(n) : a[i][3] = 0}) = 0
                      THEN [i \in NodeIds(n) |-> <<a[i][1], a[i][2], 1>>]
                      ELSE a
                node_to_free == select_node(a1)
                a2 == [a1 EXCEPT ![node_to_free] = <<a1[node_to_free][1], a1[node_to_free][2], 1>>]
                neigh == sorted({j \in NodeIds(n) : <<node_to_free, j>> \in g}, prio)
                it == list_reverse(neigh).ret
            IN IF it.tag = "list"
               THEN [x |-> for_neigh(a2, it.val, next_label), exc |-> "none"]
               ELSE [x |-> a2, exc |-> "TypeError"]

\* decode_last_state(x) = x[:,1].
decode_last_state(a) == Col(a, 1)

\* A reference to the same array instead of a copy of it.
copy_alias(h, addr) == [heap |-> h, addr |-> addr]

\* a.copy(): a new array with the contents of the array at address addr; the
\* heap after the allocation (heap) and the address of the new array (addr).
copy(h, addr) == [heap |-> Append(h, h[addr]), addr |-> Len(h) + 1]

\* The contents of the arrays history refers to.
HistoryArrays == [k \in 1 .. Len(history) |-> heap[history[k]]]

Init ==
    /\ nb_nodes \in 1 .. MaxNodes
    /\ E \in Graphs(nb_nodes)
    /\ priority \in [NodeIds(nb_nodes) -> 0 .. MaxPrio]
    /\ debug \in BOOLEAN
    /\ pc = "start"
    /\ heap = <<>>
    /\ x = 0
    /\ history = <<>>
    /\ steps = 0
    /\ exc = "none"
    /\ stdout = <<>>
    /\ result = None

\* run, lines 30-32: x = self.initialize_x(graph); history = [x.copy()].
run_init ==
    /\ pc = "start"
    /\ LET r == initialize_x(nb_nodes, E, priority)
           c == copy(<<r.x>>, 1)
       IN /\ heap' = c.heap
          /\ x' = 1
          /\ history' = <<c.addr>>
          /\ stdout' = stdout \o r.out
    /\ pc' = "loop"
    /\ UNCHANGED <<nb_nodes, E, priority, debug, steps, exc, result>>

\* run, lines 34-39: one evaluation of the while condition, followed by the
\* loop body (a call of iter_Kahn and the append of a copy) or by the return.
run_loop ==
    /\ pc = "loop"
    /\ IF amin(Col(heap[x], 2)) < 1
       THEN LET r == iter_Kahn(nb_nodes, E, priority, heap[x], debug)
                h1 == [heap EXCEPT ![x] = r.x]
                c == copy(h1, x)
            IN IF r.exc = "none"
               THEN /\ heap' = c.heap
                    /\ history' = Append(history, c.addr)
                    /\ steps' = steps + 1
                    /\ UNCHANGED <<pc, exc, result>>
               ELSE /\ heap' = h1
                    /\ pc' = "raised"
                    /\ exc' = r.exc
                    /\ UNCHANGED <<history, steps, result>>
       ELSE /\ pc' = "returned"
            /\ result' = [tag |-> "tuple",
                          history |-> HistoryArrays,
                          labels |-> decode_last_state(heap[x])]
            /\ UNCHANGED <<heap, history, steps, exc>>
    /\ UNCHANGED <<nb_nodes, E, priority, debug, x, stdout>>

Next == run_init \/ run_loop

Spec == Init /\ [][Next]_vars

----------------------------------------------------------------------------
(* Vocabulary of the properties. *)

\* The live state vector: the array run's variable x refers to.
StateVector == heap[x]

\* run has stopped: it returned its tuple, or an exception left it.
RunEnded == pc \in {"returned", "raised"}

\* The graph has a topological order, so that a scheduler following the
\* dependency edges can never be left with blocked nodes only.
Acyclic ==
    \E f \in [NodeIds(nb_nodes) -> 1 .. nb_nodes] : \A e \in E : f[e[1]] < f[e[2]]

\* The nodes with zero in-degree.
FreeSet == {i \in NodeIds(nb_nodes) : get_degree(E, i) = 0}

\* Node a comes before node b in ascending priority, ties broken by node id.
Before(a, b) == priority[a] < priority[b] \/ (priority[a] = priority[b] /\ a < b)

\* Lifecycle values of column 2.
Blocked(a, i) == a[i][3] = -1

Ready(a, i) == a[i][3] = 0

Done(a, i) == a[i][3] = 1

\* The loop is about to call iter_Kahn on a state with no Ready node and
\* some Blocked node.
DeadlockState ==
    /\ pc = "loop"
    /\ \A i \in NodeIds(nb_nodes) : ~Ready(StateVector, i)
    /\ \E i \in NodeIds(nb_nodes) : Blocked(StateVector, i)

----------------------------------------------------------------------------
C2_TerminalStateAllDone ==
    RunEnded => \A i \in NodeIds(nb_nodes) : Done(StateVector, i)

C4_NoRaisedFailure ==
    /\ pc # "raised"
    /\ (pc = "loop" /\ amin(Col(StateVector, 2)) < 1) => amax(Col(StateVector, 1)) + 1 >= 1

(* C5 - Forced deadlock termination: a step taken when no node is Ready    *)
(* while some node is Blocked leaves every node Done, gives no node a      *)
(* label, and does not end the run by an exception.                        *)
C5_ForcedTermination ==
    [][DeadlockState =>
          /\ \A i \in NodeIds(nb_nodes) :
                /\ Done(heap'[x'], i)
                /\ heap'[x'][i][2] = heap[x][i][2]
          /\ pc' # "raised"]_vars

(* C7 - Initializer result: in the state initialize_x returns (the first   *)
(* snapshot), exactly the zero in-degree nodes are Ready and carry the     *)
(* labels 1..|F| in ascending priority order, ties broken by node id;      *)
(* every other node is Blocked and unlabelled; column 0 is the in-degree.  *)
C7_InitializerResult ==
    (Len(history) >= 1) =>
        \A i \in NodeIds(nb_nodes) :
            /\ HistoryArrays[1][i][1] = get_degree(E, i)
            /\ (i \in FreeSet) =>
                  /\ Ready(HistoryArrays[1], i)
                  /\ HistoryArrays[1][i][2] = 1 + Cardinality({k \in FreeSet : Before(k, i)})
            /\ (i \notin FreeSet) =>
                  /\ Blocked(HistoryArrays[1], i)
                  /\ HistoryArrays[1][i][2] = -1

(* C8 - Tie-break correctness: of two nodes of the Initializer's free set  *)
(* with priorities p1 < p2, the one with p1 has the lower label, and the   *)
(* labels of the free set are the contiguous run 1..|F|.                   *)
C8_TieBreak ==
    (Len(history) >= 1) =>
        /\ \A a, b \in FreeSet :
              (priority[a] < priority[b]) => HistoryArrays[1][a][2] < HistoryArrays[1][b][2]
        /\ {HistoryArrays[1][a][2] : a \in FreeSet} = 1 .. Cardinality(FreeSet)

(* C9 - History length and first snapshot: History holds 1 + (number of    *)
(* iter_Kahn calls completed) snapshots, and the set of nodes Ready in its *)
(* first snapshot is the set of zero in-degree nodes.                      *)
C9_HistoryLengthFirstSnapshot ==
    (Len(history) >= 1) =>
        /\ Len(history) = 1 + steps
        /\ {i \in NodeIds(nb_nodes) : Ready(HistoryArrays[1], i)} = FreeSet

(* C10 - Snapshot independence: the first snapshot is the state            *)
(* initialize_x produced, and no step changes a snapshot that has been     *)
(* appended, although iter_Kahn mutates the live state vector in place.    *)
C10_SnapshotIndependence ==
    /\ []((Len(history) >= 1) =>
             HistoryArrays[1] = initialize_x(nb_nodes, E, priority).x)
    /\ [][\A k \in 1 .. Len(history) :
             /\ k <= Len(history')
             /\ heap'[history'[k]] = heap[history[k]]]_vars

\* C10 witness: a step has mutated the live state vector in place after the
\* first snapshot was appended, and the two now differ.
C10_Witness ==
    /\ pc = "raised"
    /\ Len(history) >= 1
    /\ StateVector # HistoryArrays[1]

\* Column 1 of node i holds a label (not the unset value -1).
Labelled(a, i) == a[i][2] # -1

\* The while condition of run holds: the next step calls iter_Kahn.
CallsIterKahn == pc = "loop" /\ amin(Col(StateVector, 2)) < 1

(* C11 - Invariant 1: in the initial state and after every step, a node's  *)
(* remaining_constraints is 0 if and only if it is Ready or Done.          *)
C11_ConstraintsVsLifecycle ==
    (pc # "start") =>
        \A i \in NodeIds(nb_nodes) :
            (StateVector[i][1] = 0) <=> (Ready(StateVector, i) \/ Done(StateVector, i))

C16_FifoSelection ==
    [][CallsIterKahn =>
          \E f \in NodeIds(nb_nodes) :
              /\ Ready(heap[x], f)
              /\ \A k \in NodeIds(nb_nodes) : Ready(heap[x], k) => heap[x][f][2] <= heap[x][k][2]
              /\ {k \in NodeIds(nb_nodes) : ~Done(heap[x], k) /\ Done(heap'[x'], k)} = {f}]_vars

CallsMade == steps + (IF pc = "raised" THEN 1 ELSE 0)

(* C18 - Step bound: on a graph of n nodes a run makes at most n           *)
(* iter_Kahn calls, and History holds at most n + 1 snapshots.             *)
C18_StepBound ==
    /\ CallsMade <= nb_nodes
    /\ Len(history) <= nb_nodes + 1

\* C18 witness: a run on a graph with a cycle has stopped.
C18_Witness ==
    /\ RunEnded
    /\ ~Acyclic
    /\ CallsMade >= 1

(* C19 - Literal reversal defect: initialize_x takes its early return on   *)
(* every graph, so the state it returns has no label and no Ready node     *)
(* even when zero in-degree nodes exist; and no iter_Kahn call returns     *)
(* normally: a call that reaches the neighbour loop raises TypeError.      *)
C19_ReversalDefect ==
    /\ []((pc # "start") =>
             /\ stdout = <<"No free nodes">>
             /\ \A i \in NodeIds(nb_nodes) :
                    ~Labelled(HistoryArrays[1], i) /\ ~Ready(HistoryArrays[1], i)
             /\ steps = 0)
    /\ [][CallsIterKahn =>
             /\ pc' = "raised"
             /\ exc' = (IF debug THEN "AssertionError" ELSE "TypeError")]_vars

\* C19 witness: on a graph with a zero in-degree node, initialize_x labelled
\* nothing and the iter_Kahn call failed at the neighbour loop.
C19_Witness ==
    /\ pc = "raised"
    /\ exc = "TypeError"
    /\ FreeSet # {}
    /\ \A i \in FreeSet : ~Labelled(HistoryArrays[1], i)

=============================================================================
